---- MODULE Spec2Model ----
(***************************************************************************)
(* A model of src/app.py, the guild-statistics dashboard.                  *)
(*                                                                         *)
(* State: the snapshot files of data/ (files), the memo of load_all_json   *)
(* kept by st.cache_data (cache), the name map read at import time         *)
(* (MAP_STAT_NAMES), and what the last run of main() computed and showed.  *)
(* One run of main() is one step: Render is a run with no button pressed,  *)
(* SaveChanges a run with "Save Changes" pressed in the edit tab.          *)
(* FileWrite and FileRemove are changes made to data/ from outside.        *)
(*                                                                         *)
(* Strings the code takes apart (file names, stat identifiers, labels)     *)
(* are sequences of lexemes, so that startswith, replace, the substring    *)
(* test, the regular expression and strptime are computed, not looked up.  *)
(***************************************************************************)
EXTENDS Integers, Sequences, FiniteSets, TLC

VARIABLES
    files,           \* data/tb_data_*.json: file name -> text on disk
    cache,           \* st.cache_data memo of load_all_json()
    MAP_STAT_NAMES,  \* the name map, in the key order of the JSON object
    outcome,         \* how the last run of main() ended
    json_dates,      \* main(): json_dates, as returned by load_all_json()
    jsons,           \* main(): jsons
    pivot_df,        \* main(): pivot_df, the latest snapshot's stat table
    status_df,       \* main(): status_df, the special mission status grid
    hist_players,    \* main(): the players selected in the history tab
    metrics,         \* main(): the fields selected in the history tab
    pivs,            \* main(): piv of every snapshot of the history loop
    hist_df,         \* main(): hist_df, the records charted
    save_msg         \* what the edit tab reported about the save

vars == << files, cache, MAP_STAT_NAMES, outcome, json_dates, jsons, pivot_df,
           status_df, hist_players, metrics, pivs, hist_df, save_msg >>

view_vars == << outcome, json_dates, jsons, pivot_df, status_df, hist_players,
                metrics, pivs, hist_df, save_msg >>

----------------------------------------------------------------------------
(* Bounds of the model.                                                    *)

\* files of data/ that match tb_data_*.json at any one time
MaxFiles == 2
\* playerStat entries of one snapshot's currentStat
MaxRecords == 2

----------------------------------------------------------------------------
(* Sequences and numbers.                                                  *)

Range(s) == { s[i] : i \in DOMAIN s }

RECURSIVE SumSeq(_)
SumSeq(s) == IF s = << >> THEN 0 ELSE Head(s) + SumSeq(Tail(s))

\* the function f itself, as a table of its values: f is read many times
\* and @@ works every value out once
Tabulate(f) == f @@ << >>

RECURSIVE Concat(_)
Concat(ss) == IF ss = << >> THEN << >> ELSE Head(ss) \o Concat(Tail(ss))

\* the sequences of length <= n over S
SeqsUpTo(S, n) == UNION { [1..k -> S] : k \in 0..n }

\* the orders in which a directory listing may give the names of S
Listings(S) ==
    { s \in [1..Cardinality(S) -> S] : \A i, j \in DOMAIN s : i # j => s[i] # s[j] }

----------------------------------------------------------------------------
(* Strings as lexeme sequences: str.startswith, str.replace(old, ''),      *)
(* and the substring test `sub in s`.                                      *)

startswith(s, prefix) ==
    Len(s) >= Len(prefix) /\ SubSeq(s, 1, Len(prefix)) = prefix

RECURSIVE remove_all(_, _)
remove_all(s, old) ==
    IF s = << >> \/ old = << >> THEN s
    ELSE IF startswith(s, old)
         THEN remove_all(SubSeq(s, Len(old) + 1, Len(s)), old)
         ELSE << Head(s) >> \o remove_all(Tail(s), old)

contains(sub, s) ==
    \E i \in 1..(Len(s) + 1) :
        i + Len(sub) - 1 <= Len(s) /\ SubSeq(s, i, i + Len(sub) - 1) = sub

----------------------------------------------------------------------------
(* extract_date: re.search(r'tb_data_(\d{6})') and strptime('%d%m%y').     *)

Digits == << "0", "1", "2", "3", "4", "5", "6", "7", "8", "9" >>

DigitSet == Range(Digits)

IsDigit(c) == c \in DigitSet

DigitVal(c) == (CHOOSE i \in DOMAIN Digits : Digits[i] = c) - 1

TB_PREFIX == "tb_data_"

\* the first place where tb_data_ is followed by six digits, 0 when none
SearchDate(name) ==
    LET hits == { i \in DOMAIN name :
                    /\ name[i] = TB_PREFIX
                    /\ i + 6 <= Len(name)
                    /\ \A k \in 1..6 : IsDigit(name[i + k]) }
    IN  IF hits = {} THEN 0 ELSE CHOOSE i \in hits : \A j \in hits : i <= j

IsLeap(y) == (y % 4 = 0 /\ y % 100 # 0) \/ y % 400 = 0

DaysIn(m, y) ==
    IF m = 2 THEN (IF IsLeap(y) THEN 29 ELSE 28)
    ELSE IF m \in {4, 6, 9, 11} THEN 30 ELSE 31

\* strptime over six digits: the date, or ValueError
strptime(g) ==
    LET dd == 10 * DigitVal(g[1]) + DigitVal(g[2])
        mm == 10 * DigitVal(g[3]) + DigitVal(g[4])
        yy == 10 * DigitVal(g[5]) + DigitVal(g[6])
        y  == IF yy < 69 THEN 2000 + yy ELSE 1900 + yy
    IN  IF mm \in 1..12 /\ dd >= 1 /\ dd <= DaysIn(mm, y)
        THEN [raised |-> "none", date |-> 10000 * y + 100 * mm + dd]
        ELSE [raised |-> "ValueError", date |-> 0]

\* None is date 0 with nothing raised; a real date is never 0
extract_date(fp) ==
    LET i == SearchDate(fp)
    IN  IF i = 0 THEN [raised |-> "none", date |-> 0]
        ELSE strptime(SubSeq(fp, i + 1, i + 6))

----------------------------------------------------------------------------
(* The file names of the model, and extract_date worked out once for each. *)

FileName(mid) == << TB_PREFIX >> \o mid \o << ".json" >>

F_010125  == FileName(<< "0", "1", "0", "1", "2", "5" >>)
F_311224  == FileName(<< "3", "1", "1", "2", "2", "4" >>)
\* a second file of 1 January 2025
F_010125b == FileName(<< "0", "1", "0", "1", "2", "5", "_", "b" >>)
\* no six digits after tb_data_
F_new     == FileName(<< "n", "e", "w" >>)
\* six digits that are no date: 31 February
F_310225  == FileName(<< "3", "1", "0", "2", "2", "5" >>)

FileNames == { F_010125, F_311224, F_010125b, F_new, F_310225 }

date_of == Tabulate([ fp \in FileNames |-> extract_date(fp) ])

----------------------------------------------------------------------------
(* list.sort(key=...) and DataFrame.sort_values: a stable ascending sort   *)
(* of records by their key field.                                          *)

RECURSIVE Ascending(_)
Ascending(S) ==
    IF S = {} THEN << >>
    ELSE LET m == CHOOSE x \in S : \A y \in S : x <= y
         IN  << m >> \o Ascending(S \ {m})

\* s holds [key, val] pairs; the vals come back in the sorted order
sort_by_key(s) ==
    LET keys == Ascending({ s[i].key : i \in DOMAIN s })
        WithKey(k) == LET Test(r) == r.key = k IN SelectSeq(s, Test)
        sorted == Concat([ i \in DOMAIN keys |-> WithKey(keys[i]) ])
    IN  [ i \in DOMAIN sorted |-> sorted[i].val ]

----------------------------------------------------------------------------
(* File texts and json.load / json.dump.  A text is the document it        *)
(* spells and its layout; a text that is not JSON has layout "bad".        *)

NoDoc == [member |-> << >>, currentStat |-> << >>]

BadText == [doc |-> NoDoc, fmt |-> "bad"]

\* json.load / json.loads: the document, or JSONDecodeError
json_load(text) ==
    IF text.fmt = "bad"
    THEN [raised |-> "JSONDecodeError", doc |-> NoDoc]
    ELSE [raised |-> "none", doc |-> text.doc]

\* json.dump(parsed, f, indent=2)
json_dump(parsed) == [doc |-> parsed, fmt |-> "indent2"]

----------------------------------------------------------------------------
(* load_all_json, without the memo: ls is the order in which glob lists    *)
(* the files of data/.                                                     *)

NoLoad == [raised |-> "none", dates |-> << >>, jsons |-> << >>]

\* line 45: the filter calls extract_date on every file, so one name whose
\* six digits are no date makes the whole call raise
load_filter_raises(disk) ==
    \E fp \in DOMAIN disk : date_of[fp].raised # "none"

\* dated_files without line 46: the files left in the order glob gave
dated_files_unsorted(ls) ==
    LET HasDate(fp) == date_of[fp].date # 0
    IN  SelectSeq(ls, HasDate)

\* lines 45-46: the files that have a date, sorted by it
dated_files(ls) ==
    LET HasDate(fp) == date_of[fp].date # 0
        kept == SelectSeq(ls, HasDate)
    IN  sort_by_key([ i \in DOMAIN kept |->
                        [key |-> date_of[kept[i]].date, val |-> kept[i]] ])

\* the listings of the names S that glob may give, one for each order the
\* sort can leave them in: listings that sort alike are one case
GlobOrders(S) ==
    LET sorted == { dated_files(ls) : ls \in Listings(S) }
    IN  { CHOOSE ls \in Listings(S) : dated_files(ls) = fs : fs \in sorted }

\* lines 47-52: the loop over the sorted files
read_files(disk, fs) ==
    IF \E i \in DOMAIN fs : json_load(disk[fs[i]]).raised # "none"
    THEN [raised |-> "JSONDecodeError", dates |-> << >>, jsons |-> << >>]
    ELSE [raised |-> "none",
          dates  |-> [ i \in DOMAIN fs |-> date_of[fs[i]].date ],
          jsons  |-> [ i \in DOMAIN fs |-> json_load(disk[fs[i]]).doc ]]

load_all_json_body(disk, ls) ==
    IF load_filter_raises(disk)
    THEN [raised |-> "ValueError", dates |-> << >>, jsons |-> << >>]
    ELSE read_files(disk, dated_files(ls))

\* @st.cache_data: the memo answers when it holds a result; a call that
\* raises stores nothing
NoCache == [valid |-> FALSE, dates |-> << >>, jsons |-> << >>]

load_all_json(memo, disk, ls) ==
    IF memo.valid
    THEN [raised |-> "none", dates |-> memo.dates, jsons |-> memo.jsons]
    ELSE load_all_json_body(disk, ls)

cache_after_load(memo, loaded) ==
    IF memo.valid \/ loaded.raised # "none" THEN memo
    ELSE [valid |-> TRUE, dates |-> loaded.dates, jsons |-> loaded.jsons]

----------------------------------------------------------------------------
(* The name map and the member list.                                       *)

\* dict.get(k, default) on the name map
map_get(map, k, default) ==
    LET hits == { i \in DOMAIN map : map[i].key = k }
    IN  IF hits = {} THEN default ELSE map[CHOOSE i \in hits : TRUE].label

\* [k for k in MAP_STAT_NAMES]: the keys, in the order of the JSON object
map_keys(map) == [ i \in DOMAIN map |-> map[i].key ]

\* line 67: {m['playerId']: m['playerName'] for m in members}; of two
\* entries with one playerId the later one stays
id_to_name_of(members) ==
    [ id \in { members[i].playerId : i \in DOMAIN members } |->
        LET last == CHOOSE i \in DOMAIN members :
                      /\ members[i].playerId = id
                      /\ \A j \in DOMAIN members :
                            members[j].playerId = id => j <= i
        IN  members[last].playerName ]

----------------------------------------------------------------------------
(* The stat table: json_normalize, the two maps and pivot_table            *)
(* (lines 108-126 and 237-249).                                            *)

\* the Player of a memberId the member list does not hold (NaN)
NaN == "NaN"

\* pd.json_normalize(stat_list, 'playerStat', ['mapStatId'])
json_normalize(stat_list) ==
    Concat([ g \in DOMAIN stat_list |->
               [ e \in DOMAIN stat_list[g].playerStat |->
                   [memberId  |-> stat_list[g].playerStat[e].memberId,
                    score     |-> stat_list[g].playerStat[e].score,
                    mapStatId |-> stat_list[g].mapStatId] ] ])

\* lines 118-119: the Player and StatName columns
with_names(df, id_to_name, map) ==
    Tabulate([ i \in DOMAIN df |->
        [Player   |-> IF df[i].memberId \in DOMAIN id_to_name
                      THEN id_to_name[df[i].memberId] ELSE NaN,
         StatName |-> map_get(map, df[i].mapStatId, df[i].mapStatId),
         score    |-> df[i].score] ])

\* pivot_table(index='Player', columns='StatName', values='score',
\* aggfunc='sum').fillna(0): rows without a Player are dropped by the
\* grouping; a row and a column exist when some kept record names them
pivot_table(df) ==
    LET kept == { i \in DOMAIN df : df[i].Player # NaN }
        idx  == { df[i].Player : i \in kept }
        cols == { df[i].StatName : i \in kept }
        Cell(p, c) ==
            LET Test(r) == r.Player = p /\ r.StatName = c
                rs == SelectSeq(df, Test)
            IN  SumSeq([ i \in DOMAIN rs |-> rs[i].score ])
    IN  [index |-> idx, columns |-> cols,
         at |-> Tabulate([ pc \in idx \X cols |-> Cell(pc[1], pc[2]) ])]

EmptyTable == [index |-> {}, columns |-> {}, at |-> << >>]

\* df[name] = values: a new column, or the old one replaced
set_column(tbl, name, values) ==
    [index |-> tbl.index, columns |-> tbl.columns \cup {name},
     at |-> Tabulate([ pc \in tbl.index \X (tbl.columns \cup {name}) |->
                IF pc[2] = name THEN values[pc[1]] ELSE tbl.at[pc] ])]

----------------------------------------------------------------------------
(* The derived P3-P6 totals (lines 139-142 and 250-251).                   *)

FirstPhase == 3
LastPhase == 6

TotalAttempts == << "Total Attempts P3-P6" >>
TotalWaves == << "Total Completed Waves P3-P6" >>

\* attempt_names with range(3, 6): round 6 left out
attempt_names_to_5 ==
    [ i \in 1..(LastPhase - FirstPhase) |->
        << "Mission Attempt Round ", Digits[FirstPhase + i] >> ]

\* f"Mission Attempt Round {p}" for p in range(3, 7)
attempt_names ==
    [ i \in 1..(LastPhase - FirstPhase + 1) |->
        << "Mission Attempt Round ", Digits[FirstPhase + i] >> ]

\* f"Waves Completed Round {p}" for p in range(3, 7)
wave_names ==
    [ i \in 1..(LastPhase - FirstPhase + 1) |->
        << "Waves Completed Round ", Digits[FirstPhase + i] >> ]

\* tbl[[c for c in names if c in tbl.columns]].sum(axis=1), for one row
row_sum(tbl, names, p) ==
    LET InTable(c) == c \in tbl.columns
        present == SelectSeq(names, InTable)
    IN  SumSeq([ i \in DOMAIN present |-> tbl.at[<< p, present[i] >>] ])

add_derived(tbl) ==
    LET Attempts == [ p \in tbl.index |-> row_sum(tbl, attempt_names, p) ]
        t1 == set_column(tbl, TotalAttempts, Attempts)
        Waves == [ p \in t1.index |-> row_sum(t1, wave_names, p) ]
    IN  set_column(t1, TotalWaves, Waves)

\* the table of one snapshot, as both the summary and the history build it
stat_table(run, id_to_name, map) ==
    add_derived(pivot_table(
        with_names(json_normalize(run.currentStat), id_to_name, map)))

----------------------------------------------------------------------------
(* The special mission status grid (lines 165-178).                        *)

COMPLETE == "covert_complete_mission"
ATTEMPTED == "covert_round_attempted_mission"

completed_keys_of(map) ==
    LET Test(k) == startswith(k, << COMPLETE >>)
    IN  SelectSeq(map_keys(map), Test)

attempted_keys_of(map) ==
    LET Test(k) == startswith(k, << ATTEMPTED >>)
    IN  SelectSeq(map_keys(map), Test)

\* line 173: key.replace('covert_complete_mission_', '')
base_of(key) == remove_all(key, << COMPLETE, "_" >>)

\* line 174: the labels of the attempt keys that hold the base
atts_of(key, map) ==
    LET Test(a) == contains(base_of(key), a)
        matching == SelectSeq(attempted_keys_of(map), Test)
    IN  [ i \in DOMAIN matching |-> map_get(map, matching[i], matching[i]) ]

\* line 172
comp_of(tbl, player, name) ==
    IF name \in tbl.columns THEN tbl.at[<< player, name >>] ELSE 0

\* line 175: a label two attempt keys share is added twice
att_count_of(tbl, player, atts) ==
    LET InTable(a) == a \in tbl.columns
        present == SelectSeq(atts, InTable)
    IN  SumSeq([ i \in DOMAIN present |-> tbl.at[<< player, present[i] >>] ])

\* classify with the two tests in the other order
classify_attempts_first(comp, att_count) ==
    IF att_count > 0 THEN -1 ELSE IF comp > 0 THEN 1 ELSE 0

\* line 176
classify(comp, att_count) ==
    IF comp > 0 THEN 1 ELSE IF att_count > 0 THEN -1 ELSE 0

\* lines 169-176: the row of one player; a label that two completion keys
\* share is assigned twice and keeps the later value
RECURSIVE status_row(_, _, _, _, _)
status_row(keys, row, tbl, player, map) ==
    IF keys = << >> THEN row
    ELSE LET key  == Head(keys)
             name == map_get(map, key, key)
             v    == classify(comp_of(tbl, player, name),
                              att_count_of(tbl, player, atts_of(key, map)))
         IN  status_row(Tail(keys), (name :> v) @@ row, tbl, player, map)

status_grid(tbl, map) ==
    LET keys == completed_keys_of(map)
        cols == { map_get(map, keys[i], keys[i]) : i \in DOMAIN keys }
        status_dict == Tabulate([ player \in tbl.index |->
                          status_row(keys, << >>, tbl, player, map) ])
    IN  [index |-> tbl.index, columns |-> cols,
         at |-> Tabulate([ pc \in tbl.index \X cols |->
                            status_dict[pc[1]][pc[2]] ])]

----------------------------------------------------------------------------
(* The summary fields and the history projection (lines 129-147, 225-259). *)

summary_metrics ==
    << << "Total Territory Points" >>,
       << "Total Mission Attempts" >>,
       << "Total Waves Completed" >>,
       << "Total Platoons Donated" >>,
       << "Total Special Mission Attempts" >>,
       << "Total Special Missions Completed" >> >>

\* lines 145-147
summary_fields_of(tbl) ==
    LET InTable(f) == f \in tbl.columns
    IN  SelectSeq(summary_metrics, InTable) \o << TotalAttempts, TotalWaves >>

\* line 150
sort_field == << "Total Territory Points" >>

\* lines 230-233: the default of the fields multiselect is Total Waves
\* Completed when sort_field is a summary field; st.multiselect raises
\* StreamlitAPIException over a default that is not among its options
metrics_default_raises(fields) ==
    /\ sort_field \in Range(fields)
    /\ << "Total Waves Completed" >> \notin Range(fields)

GuildAverage == "Guild Average"

\* the player names the model uses, in the order pandas sorts an index
PlayerOrder == << "A", "B" >>

\* line 225: list(pivot_df.index) + ["Guild Average"]
player_opts_of(tbl) ==
    LET InIndex(p) == p \in tbl.index
    IN  SelectSeq(PlayerOrder, InIndex) \o << GuildAverage >>

\* A charted value is the fraction n/d: a table cell is n/1, a mean is
\* the column's sum over the number of rows, and d = 0 is NaN.
Num(n) == [n |-> n, d |-> 1]

RECURSIVE SumOver(_, _, _)
SumOver(tbl, rows, m) ==
    IF rows = {} THEN 0
    ELSE LET p == CHOOSE x \in rows : TRUE
         IN  tbl.at[<< p, m >>] + SumOver(tbl, rows \ {p}, m)

\* Series.mean(): the mean of no rows is NaN
mean(tbl, m) == [n |-> SumOver(tbl, tbl.index, m), d |-> Cardinality(tbl.index)]

\* lines 254-257
hist_value(piv, pl, m) ==
    IF pl = GuildAverage
    THEN (IF m \in piv.columns THEN mean(piv, m) ELSE Num(0))
    ELSE (IF pl \in piv.index /\ m \in piv.columns
          THEN Num(piv.at[<< pl, m >>]) ELSE Num(0))

\* line 241: `if df_run.empty: continue`
run_skipped(run) == json_normalize(run.currentStat) = << >>

\* lines 237-251: piv of one snapshot; id_to_name is the map main() built
\* at line 67
piv_of(run, id_to_name, map) ==
    IF run_skipped(run) THEN [built |-> FALSE, table |-> EmptyTable]
    ELSE [built |-> TRUE, table |-> stat_table(run, id_to_name, map)]

\* lines 252-258: the records of one snapshot
records_of(date, piv, players, fields) ==
    IF ~piv.built THEN << >>
    ELSE Concat([ i \in DOMAIN players |->
            [ j \in DOMAIN fields |->
                [Date |-> date, Player |-> players[i], Metric |-> fields[j],
                 Value |-> hist_value(piv.table, players[i], fields[j])] ] ])

\* lines 235-259: the loop over zip(json_dates, jsons) and sort_values,
\* over the piv of every snapshot; the model sorts stably, and no formula
\* reads the order of equal dates
history(dates, tables, players, fields) ==
    LET n == IF Len(dates) <= Len(tables) THEN Len(dates) ELSE Len(tables)
        records == Concat([ i \in 1..n |->
                      records_of(dates[i], tables[i], players, fields) ])
    IN  sort_by_key([ i \in DOMAIN records |->
                        [key |-> records[i].Date, val |-> records[i]] ])

----------------------------------------------------------------------------
(* main(): one run of the script, as a function of what it reads.          *)
(*   sel    what the history tab's two multiselects hold                   *)
(*   press  whether "Save Changes" was pressed, with text in the text area *)
(*   ls     the order in which glob lists data/ during this run            *)

NoText == [doc |-> NoDoc, fmt |-> "none"]

Selections == { "all", "average" }

\* line 226: the players picked among player_opts
select_players(sel, opts) ==
    IF sel = "all" THEN opts ELSE << GuildAverage >>

\* what a run shows before the tabs are filled
Blank(how, memo, disk, loaded) ==
    [cache |-> memo, files |-> disk, outcome |-> how,
     json_dates |-> loaded.dates, jsons |-> loaded.jsons,
     pivot_df |-> EmptyTable, status_df |-> EmptyTable,
     hist_players |-> << >>, metrics |-> << >>, pivs |-> << >>,
     hist_df |-> << >>, save_msg |-> "none"]

\* save_changes with the file opened for writing before the text is
\* parsed: text that is not JSON leaves the file empty
save_changes_open_first(r, press, text, fs) ==
    IF fs = << >> THEN [r EXCEPT !.save_msg = "no_files_to_edit"]
    ELSE IF ~press THEN r
    ELSE IF json_load(text).raised # "none"
    THEN [r EXCEPT !.save_msg = "error",
                   !.files = [r.files EXCEPT ![fs[Len(fs)]] = BadText]]
    ELSE [r EXCEPT !.save_msg = "saved",
                   !.files = [r.files EXCEPT
                                ![fs[Len(fs)]] = json_dump(json_load(text).doc)],
                   !.cache = NoCache]

\* lines 281-304: fs is the sorted listing, fs[Len(fs)] is latest_fp
save_changes(r, press, text, fs) ==
    IF fs = << >> THEN [r EXCEPT !.save_msg = "no_files_to_edit"]
    ELSE IF ~press THEN r
    ELSE IF json_load(text).raised # "none"
    THEN [r EXCEPT !.save_msg = "error"]
    ELSE [r EXCEPT !.save_msg = "saved",
                   !.files = [r.files EXCEPT
                                ![fs[Len(fs)]] = json_dump(json_load(text).doc)],
                   !.cache = NoCache]

\* lines 276-304: the edit tab; r is the run so far.  The tab is reached
\* when nothing was raised before it.
edit_tab(r, press, text, ls) ==
    IF r.outcome # "rendered" THEN r
    ELSE IF load_filter_raises(r.files)
    THEN [r EXCEPT !.outcome = "edit_raised_ValueError"]
    ELSE save_changes(r, press, text, dated_files(ls))

\* lines 108-178: the stat table and the status grid of the latest snapshot
guild_tab(r, tbl, map) ==
    [r EXCEPT !.pivot_df = tbl, !.status_df = status_grid(tbl, map)]

\* lines 234-259: the records charted, over the piv of every snapshot
charted(r, tables) ==
    IF r.hist_players = << >> \/ r.metrics = << >> THEN r
    ELSE [r EXCEPT !.pivs = tables,
                   !.hist_df = history(r.json_dates, tables,
                                       r.hist_players, r.metrics)]

\* lines 223-273: the history tab
history_tab(r, id_to_name, map, sel) ==
    IF metrics_default_raises(summary_fields_of(r.pivot_df))
    THEN [r EXCEPT !.outcome = "history_raised_StreamlitAPIException",
                   !.hist_players = select_players(sel, player_opts_of(r.pivot_df))]
    ELSE charted([r EXCEPT
                    !.hist_players = select_players(sel, player_opts_of(r.pivot_df)),
                    !.metrics = summary_fields_of(r.pivot_df)],
                 Tabulate([ i \in DOMAIN r.jsons |->
                              piv_of(r.jsons[i], id_to_name, map) ]))

\* lines 64-304: jb is the latest snapshot
tabs(r, jb, id_to_name, map, sel, press, text, ls) ==
    edit_tab(history_tab(guild_tab(r, stat_table(jb, id_to_name, map), map),
                         id_to_name, map, sel),
             press, text, ls)

\* lines 60-115: the two early returns, then the tabs
after_load(loaded, memo, disk, map, sel, press, text, ls) ==
    IF loaded.raised # "none"
    THEN Blank("load_raised_" \o loaded.raised, memo, disk, NoLoad)
    ELSE IF loaded.jsons = << >>
    THEN Blank("no_files", cache_after_load(memo, loaded), disk, loaded)
    ELSE IF json_normalize(loaded.jsons[Len(loaded.jsons)].currentStat) = << >>
    THEN Blank("no_data", cache_after_load(memo, loaded), disk, loaded)
    ELSE tabs(Blank("rendered", cache_after_load(memo, loaded), disk, loaded),
              loaded.jsons[Len(loaded.jsons)],
              id_to_name_of(loaded.jsons[Len(loaded.jsons)].member),
              map, sel, press, text, ls)

\* lines 54-304
main(memo, disk, map, sel, press, text, ls) ==
    after_load(load_all_json(memo, disk, ls), memo, disk, map, sel, press, text, ls)

\* the state a run leaves
Shows(r) ==
    /\ cache' = r.cache
    /\ files' = r.files
    /\ outcome' = r.outcome
    /\ json_dates' = r.json_dates
    /\ jsons' = r.jsons
    /\ pivot_df' = r.pivot_df
    /\ status_df' = r.status_df
    /\ hist_players' = r.hist_players
    /\ metrics' = r.metrics
    /\ pivs' = r.pivs
    /\ hist_df' = r.hist_df
    /\ save_msg' = r.save_msg
    /\ UNCHANGED MAP_STAT_NAMES

----------------------------------------------------------------------------
(* The inputs the model draws from.                                        *)

\* stat identifiers and labels
PTS   == << "pts" >>
TTP   == << "Total Territory Points" >>
WAVES == << "waves" >>
TWC   == << "Total Waves Completed" >>
ATT3  == << "strike_attempt_round_", "3" >>
MAR3  == << "Mission Attempt Round ", "3" >>
MAR6  == << "Mission Attempt Round ", "6" >>
MAR7  == << "Mission Attempt Round ", "7" >>
WCR4  == << "Waves Completed Round ", "4" >>
CC_x  == << COMPLETE, "_", "x" >>
CC_y  == << COMPLETE, "_", "y" >>
CA_x  == << ATTEMPTED, "_", "x" >>
CA_xb == << ATTEMPTED, "_", "x", "b" >>
MissionX == << "Mission X" >>
MissionY == << "Mission Y" >>
AttemptX == << "Attempt X" >>
AttemptXb == << "Attempt Xb" >>

Entry(k, l) == [key |-> k, label |-> l]

\* data/map_stat_names.json: absent, with one label per key, and with one
\* label given to both completion keys
MapAbsent == << >>
MapPlain ==
    << Entry(PTS, TTP), Entry(WAVES, TWC), Entry(ATT3, MAR3),
       Entry(CC_x, MissionX), Entry(CC_y, MissionY), Entry(CA_x, AttemptX), Entry(CA_xb, AttemptXb) >>
MapShared ==
    << Entry(PTS, TTP), Entry(WAVES, TWC), Entry(ATT3, MAR3),
       Entry(CC_x, MissionX), Entry(CC_y, MissionX), Entry(CA_x, AttemptX), Entry(CA_xb, AttemptXb) >>

NameMaps == { MapAbsent, MapPlain, MapShared }

Member(id, name) == [playerId |-> id, playerName |-> name]

MemberLists == { << Member(1, "A"), Member(2, "B") >>, << Member(1, "A") >> }

MemberIds == { 1, 2 }

\* one group per entry
RECURSIVE Singly(_)
Singly(rs) ==
    IF rs = << >> THEN << >>
    ELSE << [mapStatId |-> Head(rs).id, playerStat |-> << Head(rs).e >>] >>
         \o Singly(Tail(rs))

\* neighbouring entries of one mapStatId in one group
RECURSIVE Grouped(_)
Grouped(rs) ==
    IF rs = << >> THEN << >>
    ELSE LET rest == Grouped(Tail(rs))
         IN  IF rest # << >> /\ Head(rest).mapStatId = Head(rs).id
             THEN << [mapStatId |-> Head(rs).id,
                      playerStat |-> << Head(rs).e >> \o Head(rest).playerStat] >>
                  \o Tail(rest)
             ELSE << [mapStatId |-> Head(rs).id, playerStat |-> << Head(rs).e >>] >>
                  \o rest

\* the currentStat lists of at most n entries over the identifiers ids and
\* the scores given, and the list of one group that has no entry
CurrentStats(ids, scores, n) ==
    LET flat == SeqsUpTo([id : ids, e : [memberId : MemberIds, score : scores]], n)
    IN  { Singly(rs) : rs \in flat } \cup { Grouped(rs) : rs \in flat }
        \cup { << [mapStatId |-> id, playerStat |-> << >>] >> : id \in ids }

Snapshots(ids, scores, n) ==
    [member : MemberLists, currentStat : CurrentStats(ids, scores, n)]

\* the snapshots of the single-snapshot runs: territory points, the
\* phase columns, the special missions
PointSnapshots == Snapshots({ PTS }, { 5, 10 }, MaxRecords)
PhaseSnapshots == Snapshots({ ATT3, MAR6, MAR7, WCR4 }, { 5, 10 }, MaxRecords)
CovertSnapshots == Snapshots({ CC_x, CC_y, CA_x, CA_xb }, { 5 }, MaxRecords)

\* the snapshots of the history runs
HistorySnapshots == Snapshots({ WAVES }, { 5 }, MaxRecords)

Disks(names, texts, n) ==
    UNION { [S -> texts] : S \in { X \in SUBSET names : Cardinality(X) <= n } }

\* the snapshots of the application runs
DocA == [member |-> << Member(1, "A") >>,
         currentStat |-> << [mapStatId |-> WAVES,
                             playerStat |-> << [memberId |-> 1, score |-> 10] >>] >>]
DocB == [member |-> << Member(1, "A"), Member(2, "B") >>,
         currentStat |-> << [mapStatId |-> WAVES,
                             playerStat |-> << [memberId |-> 1, score |-> 10],
                                               [memberId |-> 2, score |-> 5] >>] >>]

\* what data/ holds at the start and what is written to it from outside
DiskTexts == { [doc |-> DocA, fmt |-> "indent2"], BadText }

\* what the text area may hold when "Save Changes" is pressed
EditTexts == { [doc |-> DocB, fmt |-> "compact"], BadText }

----------------------------------------------------------------------------
(* The steps.                                                              *)

\* a run of the script with no button pressed
Render ==
    \E sel \in Selections, ls \in GlobOrders(DOMAIN files) :
        Shows(main(cache, files, MAP_STAT_NAMES, sel, FALSE, NoText, ls))

\* the page shows the "Save Changes" button: the last run reached line 293
ButtonShown == outcome = "rendered" /\ save_msg # "no_files_to_edit"

\* a run of the script with "Save Changes" pressed and text in the text area
SaveWith(text) ==
    /\ ButtonShown
    /\ \E sel \in Selections, ls \in GlobOrders(DOMAIN files) :
          Shows(main(cache, files, MAP_STAT_NAMES, sel, TRUE, text, ls))

SaveChanges == \E text \in EditTexts : SaveWith(text)

\* a file of data/ written from outside the application
FileWrite ==
    \E fp \in FileNames, text \in DiskTexts :
        /\ fp \in DOMAIN files \/ Cardinality(DOMAIN files) < MaxFiles
        /\ files' = (fp :> text) @@ files
        /\ UNCHANGED << cache, MAP_STAT_NAMES, view_vars >>

\* a file of data/ removed from outside the application
FileRemove ==
    \E fp \in DOMAIN files :
        /\ files' = [ f \in DOMAIN files \ {fp} |-> files[f] ]
        /\ UNCHANGED << cache, MAP_STAT_NAMES, view_vars >>

NotRun ==
    /\ cache = NoCache
    /\ outcome = "not_run"
    /\ json_dates = << >>
    /\ jsons = << >>
    /\ pivot_df = EmptyTable
    /\ status_df = EmptyTable
    /\ hist_players = << >>
    /\ metrics = << >>
    /\ pivs = << >>
    /\ hist_df = << >>
    /\ save_msg = "none"

\* the application: any data directory of at most MaxFiles files
Init ==
    /\ files \in Disks(FileNames, DiskTexts, MaxFiles)
    /\ MAP_STAT_NAMES = MapPlain
    /\ NotRun

Next == Render \/ SaveChanges \/ FileWrite \/ FileRemove

Spec == Init /\ [][Next]_vars

\* one snapshot on disk, of at most MaxRecords entries
InitTable ==
    /\ \E doc \in PointSnapshots \cup PhaseSnapshots \cup CovertSnapshots :
          files = (F_010125 :> [doc |-> doc, fmt |-> "indent2"])
    /\ MAP_STAT_NAMES \in NameMaps
    /\ NotRun

\* two snapshots on disk, an older and a later one
InitHistory ==
    /\ \E older, later \in HistorySnapshots :
          files = (F_311224 :> [doc |-> older, fmt |-> "indent2"])
                  @@ (F_010125 :> [doc |-> later, fmt |-> "indent2"])
    /\ MAP_STAT_NAMES = MapPlain
    /\ NotRun

InitData == InitTable \/ InitHistory

NextData == Render

SpecData == InitData /\ [][NextData]_vars

----------------------------------------------------------------------------
(* Properties.                                                             *)

\* the last run of main() built the stat table and the status grid
Computed ==
    outcome \in { "rendered", "edit_raised_ValueError",
                  "history_raised_StreamlitAPIException" }

\* the latest snapshot, jsons[-1]
Latest == jsons[Len(jsons)]

RECURSIVE SetSum(_, _)
SetSum(S, f) ==
    IF S = {} THEN 0
    ELSE LET x == CHOOSE y \in S : TRUE IN f[x] + SetSum(S \ {x}, f)

\* the value of one row over the columns of cols that the table has
ColumnsSum(tbl, p, cols) ==
    LET have == cols \cap tbl.columns
    IN  SetSum(have, [ c \in have |-> tbl.at[<< p, c >>] ])

\* the completion and the attempt identifiers of the name map
CompletionIds ==
    { k \in Range(map_keys(MAP_STAT_NAMES)) : startswith(k, << COMPLETE >>) }
AttemptIds ==
    { k \in Range(map_keys(MAP_STAT_NAMES)) : startswith(k, << ATTEMPTED >>) }

LabelOf(k) == map_get(MAP_STAT_NAMES, k, k)

\* the attempt columns that match a completion identifier
MatchingAttemptColumns(k) ==
    { LabelOf(a) : a \in { b \in AttemptIds :
                             contains(remove_all(k, << COMPLETE, "_" >>), b) } }

\* the priority rule for player p and completion identifier k
RuleCell(p, k) ==
    LET completed == IF LabelOf(k) \in pivot_df.columns
                     THEN pivot_df.at[<< p, LabelOf(k) >>] ELSE 0
        attempted == ColumnsSum(pivot_df, p, MatchingAttemptColumns(k))
    IN  IF completed > 0 THEN 1 ELSE IF attempted > 0 THEN -1 ELSE 0

\* the place of identifier k in the name map
PlaceOf(k) == CHOOSE i \in DOMAIN MAP_STAT_NAMES : MAP_STAT_NAMES[i].key = k

\* C1, as claimed: for every player row and every completion identifier the
\* status cell of the identifier's label is 1, -1 or 0 by the priority rule
C1_CellFollowsRule ==
    Computed =>
        \A p \in pivot_df.index : \A k \in CompletionIds :
            /\ status_df.at[<< p, LabelOf(k) >>] \in { 1, -1, 0 }
            /\ status_df.at[<< p, LabelOf(k) >>] = RuleCell(p, k)

\* C1, amended: the cell is 1, -1 or 0, and it follows the priority rule of
\* the last completion identifier, in the order of the name map, that has
\* the cell's label
C1_CellFollowsRuleOfLastId ==
    Computed =>
        \A p \in pivot_df.index : \A k \in CompletionIds :
            /\ status_df.at[<< p, LabelOf(k) >>] \in { 1, -1, 0 }
            /\ (\A k2 \in CompletionIds :
                    LabelOf(k2) = LabelOf(k) => PlaceOf(k2) <= PlaceOf(k))
               => status_df.at[<< p, LabelOf(k) >>] = RuleCell(p, k)

\* C1, witness: a player completed mission x and also attempted it, and the
\* cell is 1
C1_CompletedAndAttempted ==
    /\ Computed
    /\ MAP_STAT_NAMES = MapPlain
    /\ \E p \in pivot_df.index :
          /\ { MissionX, AttemptX } \subseteq pivot_df.columns
          /\ pivot_df.at[<< p, MissionX >>] > 0
          /\ pivot_df.at[<< p, AttemptX >>] > 0
          /\ status_df.at[<< p, MissionX >>] = 1

\* the raw records of the latest snapshot for member id and identifier k
RawScores(id, k) ==
    LET flat == json_normalize(Latest.currentStat)
        hits == { i \in DOMAIN flat :
                    flat[i].memberId = id /\ flat[i].mapStatId = k }
    IN  SetSum(hits, [ i \in hits |-> flat[i].score ])

\* C2, as claimed: the stat table has a cell for every player of the member
\* list and every stat label; it is the sum of the player's raw scores of
\* that stat, and 0 when the player has none
C2_EveryMemberHasEveryCell ==
    Computed =>
        \A i \in DOMAIN Latest.member :
            \A k \in { g.mapStatId : g \in Range(Latest.currentStat) } :
                LET id == Latest.member[i].playerId
                    cell == << Latest.member[i].playerName, LabelOf(k) >>
                IN  /\ cell \in DOMAIN pivot_df.at
                    /\ pivot_df.at[cell] = RawScores(id, k)

PhaseAttemptColumns ==
    { << "Mission Attempt Round ", "3" >>, << "Mission Attempt Round ", "4" >>,
      << "Mission Attempt Round ", "5" >>, << "Mission Attempt Round ", "6" >> }
PhaseWaveColumns ==
    { << "Waves Completed Round ", "3" >>, << "Waves Completed Round ", "4" >>,
      << "Waves Completed Round ", "5" >>, << "Waves Completed Round ", "6" >> }

\* the two derived columns of tbl are there and hold the phase sums
DerivedHolds(tbl) ==
    /\ { TotalAttempts, TotalWaves } \subseteq tbl.columns
    /\ \A p \in tbl.index :
          /\ tbl.at[<< p, TotalAttempts >>]
                = ColumnsSum(tbl, p, PhaseAttemptColumns)
          /\ tbl.at[<< p, TotalWaves >>]
                = ColumnsSum(tbl, p, PhaseWaveColumns)

\* C5: in the latest snapshot's table and in every table of the history
\* loop, Total Attempts P3-P6 is the row's sum over the Mission Attempt
\* Round 3..6 columns the table has and Total Completed Waves P3-P6 the sum
\* over its Waves Completed Round 3..6 columns; with none of them the
\* column is there and is 0
C5_DerivedColumnsAreSums ==
    Computed =>
        /\ DerivedHolds(pivot_df)
        /\ \A i \in DOMAIN pivs : pivs[i].built => DerivedHolds(pivs[i].table)

\* C5, witness: a row with attempts in rounds 3 and 6, in the latest table
\* and in a history table
C5_TwoPhasesSummed ==
    /\ Computed
    /\ \E p \in pivot_df.index :
          /\ { MAR3, MAR6 } \subseteq pivot_df.columns
          /\ pivot_df.at[<< p, MAR3 >>] > 0
          /\ pivot_df.at[<< p, MAR6 >>] > 0
          /\ pivot_df.at[<< p, TotalAttempts >>]
                = pivot_df.at[<< p, MAR3 >>] + pivot_df.at[<< p, MAR6 >>]
    /\ \E i \in DOMAIN pivs : pivs[i].built /\ pivs[i].table = pivot_df

\* C3, as claimed: with P players and M metrics selected, the history of the
\* N snapshots load_all_json returned holds N x P x M records, one for every
\* snapshot, selected player and selected metric
C3_OneRecordPerCombination ==
    (Computed /\ hist_players # << >> /\ metrics # << >>) =>
        /\ Len(hist_df) = Len(jsons) * Len(hist_players) * Len(metrics)
        /\ \A i \in DOMAIN jsons : \A pl \in Range(hist_players) :
              \A m \in Range(metrics) :
                 Cardinality({ j \in DOMAIN hist_df :
                                 /\ hist_df[j].Date = json_dates[i]
                                 /\ hist_df[j].Player = pl
                                 /\ hist_df[j].Metric = m }) = 1

\* the snapshot a history record belongs to; SpecData has one file a date
SnapshotOf(rec) == CHOOSE i \in DOMAIN json_dates : json_dates[i] = rec.Date

\* the mean of column m over the rows of tbl as a fraction, 0 when tbl has
\* no row or no column m
MeanOrZero(tbl, m) ==
    IF tbl.index = {} \/ m \notin tbl.columns THEN [n |-> 0, d |-> 1]
    ELSE [n |-> SetSum(tbl.index, [ p \in tbl.index |-> tbl.at[<< p, m >>] ]),
          d |-> Cardinality(tbl.index)]

\* C4, as claimed: every Guild Average record holds a number, never NaN:
\* the mean of its metric over the player rows of its snapshot's table, and
\* 0 when that table has no player row or no such column
C4_AverageIsMeanOrZero ==
    Computed =>
        \A j \in DOMAIN hist_df :
            hist_df[j].Player = GuildAverage =>
                LET want == MeanOrZero(pivs[SnapshotOf(hist_df[j])].table,
                                       hist_df[j].Metric)
                    got  == hist_df[j].Value
                IN  got.d # 0 /\ got.n * want.d = want.n * got.d

\* C9, as claimed: every table of the history loop is the table built for
\* that snapshot alone, its memberIds resolved through its own member list
C9_HistoryUsesOwnMembers ==
    Computed =>
        \A i \in DOMAIN pivs :
            pivs[i].built =>
                pivs[i].table = stat_table(jsons[i], id_to_name_of(jsons[i].member),
                                           MAP_STAT_NAMES)

\* the run r, made from the state as it is, changed no file of data/, left
\* a filled cache as it was and, where it reached the button, reported the
\* error
Refused(r) ==
    /\ r.files = files
    /\ (cache.valid => r.cache = cache)
    /\ (r.outcome = "rendered" /\ r.save_msg # "no_files_to_edit"
            => r.save_msg = "error")

\* C6: wherever the page shows the button, a run with "Save Changes"
\* pressed and text that is not JSON leaves every file of data/ as it was,
\* leaves a filled cache as it was, and, where the run reaches the button,
\* reports the error
C6_InvalidSaveChangesNothing ==
    ButtonShown =>
        \A sel \in Selections, ls \in GlobOrders(DOMAIN files) :
            Refused(main(cache, files, MAP_STAT_NAMES, sel, TRUE, BadText, ls))

\* C6, witness: a save was refused
C6_SaveRefused == outcome = "rendered" /\ save_msg = "error" /\ cache.valid

\* C7, as claimed: no run raises over a file name that encodes no valid
\* date, neither in load_all_json nor in the edit tab's listing
C7_BadNamesRaiseNothing ==
    outcome \notin { "load_raised_ValueError", "edit_raised_ValueError" }

\* what load_all_json returns when it reads data/ afresh
FreshLoads(disk) == { load_all_json_body(disk, ls) : ls \in GlobOrders(DOMAIN disk) }

\* C8, as claimed: the snapshots a run shows are what a fresh read of data/
\* returns when the run starts
C8_RunShowsFreshRead ==
    [][ (Render \/ SaveChanges) =>
          \E fresh \in FreshLoads(files) :
              IF fresh.raised # "none"
              THEN outcome' = "load_raised_" \o fresh.raised
              ELSE json_dates' = fresh.dates /\ jsons' = fresh.jsons ]_vars

\* C10, as claimed: the dates load_all_json returned are strictly increasing
C10_DatesStrictlyIncrease ==
    \A i, j \in DOMAIN json_dates : i < j => json_dates[i] < json_dates[j]

\* C10, amended: the dates load_all_json returned never decrease; two files
\* whose names encode one date give two equal dates
C10_DatesNeverDecrease ==
    \A i, j \in DOMAIN json_dates : i < j => json_dates[i] <= json_dates[j]

\* C10, witness: 31 December 2024 and 1 January 2025 loaded, in that order
C10_TwoDatesLoaded ==
    outcome = "rendered" /\ json_dates = << 20241231, 20250101 >>

====
